---- MODULE Spec2Model ----
(***************************************************************************)
(* A model of icenet/deep/dbnf.py: the training loop train(), the          *)
(* two-density ratio predict() and the network constructor create_model(). *)
(* Each of the three functions has its own specification over its own      *)
(* variables (SpecTrain, SpecPredict, SpecCreate).                         *)
(***************************************************************************)
EXTENDS Integers, Sequences, FiniteSets

\* ------------------------------------------------------------------ bounds
MaxStart    == 2    \* start_epoch ranges over 0..MaxStart
MaxEpochs   == 3    \* epochs ranges over 0..MaxEpochs
MaxEvalmode == 3    \* evalmode ranges over 1..MaxEvalmode
MaxBatches  == 2    \* the training loader yields 1..MaxBatches batches
MaxLoss     == 1    \* a loss value is one of 0..MaxLoss
MaxRows     == 2    \* X has 1..MaxRows rows
MaxUnder    == 1    \* the lowest log-density is -MaxUnder
MaxLog      == 4    \* the highest finite log-density
MaxFloat    == 8    \* the largest finite float is MaxFloat/Resolution
Resolution  == 4    \* the smallest positive float is 1/Resolution
MaxDims     == 2    \* param['n_dims'] ranges over 1..MaxDims
MaxHidden   == 2    \* param['hidden_dim'] ranges over 1..MaxHidden
MaxLayers   == 2    \* param['layers'] ranges over 0..MaxLayers
MaxFlows    == 3    \* param['flows'] ranges over 0..MaxFlows

\* The default of predict's EPS (1E-9), in units of 1/Resolution: it lies
\* above the smallest positive densities and below 1.
EPS == 3

VARIABLES
    \* ---- train()
    pc,               \* position in train()
    start_epoch,      \* param['opt_param']['start_epoch']
    epochs,           \* param['opt_param']['epochs']
    evalmode,         \* param['evalmode']
    nbatches,         \* number of batches training_loader yields per epoch
    nxt,              \* next value of range(start_epoch, start_epoch + epochs)
    epoch,            \* the loop variable
    batch,            \* batches of this epoch already processed
    view,             \* which parameter snapshot is live: "RAW" or "AVERAGED"
    train_loss,       \* local train_loss (Unbound before the first assignment)
    validation_loss,  \* local validation_loss (Unbound before the first assignment)
    trn_losses,       \* list trn_losses
    val_losses,       \* list val_losses
    stop,             \* local stop: the last value scheduler.step returned
    saved,            \* the checkpoints written, in order
    schedCalls,       \* the calls of scheduler.step, in order
    executed,         \* history: the epochs whose body was entered, in order
    trained,          \* history: the epochs whose TRAIN phase completed, in order
    phases,           \* history: the phases of the current epoch, in order
    nsteps,           \* history: number of optimizer.step() calls
    nswaps,           \* history: number of optimizer.swap() calls
    \* ---- predict()
    pcP,              \* position in predict()
    logp,             \* logp[m][i]: compute_log_p_x(models[m-1], X)[i]
    nrows,            \* X.shape[0]
    return_prob,      \* argument return_prob
    eps,              \* argument EPS, in units of 1/Resolution
    bgk_pdf,          \* local bgk_pdf
    sgn_pdf,          \* local sgn_pdf
    ratio,            \* history: out as computed, before the non-finite rows are set
    out,              \* local out
    \* ---- create_model()
    pcC,              \* position in create_model()
    param,            \* argument param
    f,                \* the loop variable f
    flows,            \* local list flows
    model             \* local model

trainVars == <<pc, start_epoch, epochs, evalmode, nbatches, nxt, epoch, batch,
               view, train_loss, validation_loss, trn_losses, val_losses, stop,
               saved, schedCalls, executed, trained, phases, nsteps, nswaps>>

predictVars == <<pcP, logp, nrows, return_prob, eps, bgk_pdf, sgn_pdf, ratio, out>>

createVars == <<pcC, param, f, flows, model>>

notTrain == <<predictVars, createVars>>

notPredict == <<trainVars, createVars>>

notCreate == <<trainVars, predictVars>>

vars == <<trainVars, predictVars, createVars>>

\* A local variable that has not been assigned yet.
Unbound == -1

Loss == 0..MaxLoss

\* Each function is modelled on its own: while one runs, the variables of
\* the other two keep these values.
IdleTrain ==
    /\ pc = "idle" /\ start_epoch = 0 /\ epochs = 0 /\ evalmode = 1
    /\ nbatches = 1 /\ nxt = 0 /\ epoch = Unbound /\ batch = 0 /\ view = "RAW"
    /\ train_loss = Unbound /\ validation_loss = Unbound
    /\ trn_losses = <<>> /\ val_losses = <<>> /\ stop = FALSE /\ saved = <<>>
    /\ schedCalls = <<>> /\ executed = <<>> /\ trained = <<>> /\ phases = <<>>
    /\ nsteps = 0 /\ nswaps = 0

IdlePredict ==
    /\ pcP = "idle" /\ logp = <<>> /\ nrows = 0 /\ return_prob = FALSE
    /\ eps = 0 /\ bgk_pdf = <<>> /\ sgn_pdf = <<>> /\ ratio = <<>> /\ out = <<>>

IdleCreate ==
    /\ pcC = "idle" /\ param = <<>> /\ f = 0 /\ flows = <<>> /\ model = <<>>

\* ================================================================ train()

\* optimizer.swap(): exchanges the live parameters with the averaged copy.
Swap(v) == IF v = "RAW" THEN "AVERAGED" ELSE "RAW"

\* The condition under which an epoch computes the validation loss.
DoValidate(e, m) == e = 0 \/ (e % m) = 0

\* What aux_torch.save_torch_model is given for epoch e.
Checkpoint(e) ==
    [epoch      |-> e,
     view       |-> view,
     trn_losses |-> trn_losses,
     val_losses |-> val_losses,
     nsched     |-> Len(schedCalls)]

\* A reordering that persists the checkpoint before the scheduler is stepped.
FollowingSaveFirst(p) ==
    CASE p = "metrics" -> "save"
      [] p = "save"    -> "sched"
      [] p = "sched"   -> "stopcheck"

\* The order of the statements that end the loop body: the metrics are
\* appended, the scheduler is stepped, the checkpoint is saved, stop is tested.
Following(p) ==
    CASE p = "metrics" -> "sched"
      [] p = "sched"   -> "save"
      [] p = "save"    -> "stopcheck"

\* A slip that never leaves the loop on stop.
AfterStopCheckIgnored(s) == "for"

\* if stop: break
AfterStopCheck(s) == IF s THEN "done" ELSE "for"

InitTrain ==
    /\ start_epoch \in 0..MaxStart
    /\ epochs \in 0..MaxEpochs
    /\ evalmode \in 1..MaxEvalmode
    /\ nbatches \in 1..MaxBatches
    /\ pc = "for"
    /\ nxt = start_epoch
    /\ epoch = Unbound
    /\ batch = 0
    /\ view = "RAW"
    /\ train_loss = Unbound
    /\ validation_loss = Unbound
    /\ trn_losses = <<>>
    /\ val_losses = <<>>
    /\ stop = FALSE
    /\ saved = <<>>
    /\ schedCalls = <<>>
    /\ executed = <<>>
    /\ trained = <<>>
    /\ phases = <<>>
    /\ nsteps = 0
    /\ nswaps = 0
    /\ IdlePredict
    /\ IdleCreate

\* for epoch in range(start_epoch, start_epoch + epochs): the next epoch begins.
ForNext ==
    /\ pc = "for"
    /\ nxt < start_epoch + epochs
    /\ epoch' = nxt
    /\ nxt' = nxt + 1
    /\ batch' = 0
    /\ executed' = Append(executed, nxt)
    /\ phases' = <<>>
    /\ pc' = "batch"
    /\ UNCHANGED <<notTrain, start_epoch, epochs, evalmode, nbatches, view, train_loss,
                   validation_loss, trn_losses, val_losses, stop, saved,
                   schedCalls, trained, nsteps, nswaps>>

\* The range is exhausted: train() returns.
ForExhausted ==
    /\ pc = "for"
    /\ nxt >= start_epoch + epochs
    /\ pc' = "done"
    /\ UNCHANGED <<notTrain, start_epoch, epochs, evalmode, nbatches, nxt, epoch, batch,
                   view, train_loss, validation_loss, trn_losses, val_losses,
                   stop, saved, schedCalls, executed, trained, phases, nsteps,
                   nswaps>>

\* One batch of the training loader: loss, backward, clip, optimizer.step().
TrainBatch ==
    /\ pc = "batch"
    /\ batch < nbatches
    /\ batch' = batch + 1
    /\ nsteps' = nsteps + 1
    /\ UNCHANGED <<notTrain, pc, start_epoch, epochs, evalmode, nbatches, nxt, epoch,
                   view, train_loss, validation_loss, trn_losses, val_losses,
                   stop, saved, schedCalls, executed, trained, phases, nswaps>>

\* The loader is exhausted: train_loss is the mean of the batch losses.
TrainMean ==
    /\ pc = "batch"
    /\ batch = nbatches
    /\ \E l \in Loss : train_loss' = l
    /\ pc' = "swap"
    /\ UNCHANGED <<notTrain, start_epoch, epochs, evalmode, nbatches, nxt, epoch, batch,
                   view, validation_loss, trn_losses, val_losses, stop, saved,
                   schedCalls, executed, trained, phases, nsteps, nswaps>>

\* optimizer.swap() after the training batches; the TRAIN phase is complete.
SwapAfterTrain ==
    /\ pc = "swap"
    /\ view' = Swap(view)
    /\ nswaps' = nswaps + 1
    /\ trained' = Append(trained, epoch)
    /\ phases' = Append(phases, "TRAIN")
    /\ pc' = "valcheck"
    /\ UNCHANGED <<notTrain, start_epoch, epochs, evalmode, nbatches, nxt, epoch, batch,
                   train_loss, validation_loss, trn_losses, val_losses, stop,
                   saved, schedCalls, executed, nsteps>>

\* if epoch == 0 or (epoch % evalmode) == 0
ValCheck ==
    /\ pc = "valcheck"
    /\ pc' = IF DoValidate(epoch, evalmode) THEN "validate" ELSE "metrics"
    /\ UNCHANGED <<notTrain, start_epoch, epochs, evalmode, nbatches, nxt, epoch, batch,
                   view, train_loss, validation_loss, trn_losses, val_losses,
                   stop, saved, schedCalls, executed, trained, phases, nsteps,
                   nswaps>>

\* The validation loss is computed over the validation loader under the
\* live parameters.
Validate ==
    /\ pc = "validate"
    /\ \E l \in Loss : validation_loss' = l
    /\ phases' = Append(phases, "VALIDATE")
    /\ pc' = "swapback"
    /\ UNCHANGED <<notTrain, start_epoch, epochs, evalmode, nbatches, nxt, epoch, batch,
                   view, train_loss, trn_losses, val_losses, stop, saved,
                   schedCalls, executed, trained, nsteps, nswaps>>

\* optimizer.swap() at the end of the validation branch.
SwapAfterValidate ==
    /\ pc = "swapback"
    /\ view' = Swap(view)
    /\ nswaps' = nswaps + 1
    /\ pc' = "metrics"
    /\ UNCHANGED <<notTrain, start_epoch, epochs, evalmode, nbatches, nxt, epoch, batch,
                   train_loss, validation_loss, trn_losses, val_losses, stop,
                   saved, schedCalls, executed, trained, phases, nsteps>>

\* trn_losses.append(train_loss.item()); val_losses.append(validation_loss.item())
SaveMetrics ==
    /\ pc = "metrics"
    /\ validation_loss # Unbound
    /\ trn_losses' = Append(trn_losses, train_loss)
    /\ val_losses' = Append(val_losses, validation_loss)
    /\ pc' = Following("metrics")
    /\ UNCHANGED <<notTrain, start_epoch, epochs, evalmode, nbatches, nxt, epoch, batch,
                   view, train_loss, validation_loss, stop, saved, schedCalls,
                   executed, trained, phases, nsteps, nswaps>>

\* The same two statements when validation_loss was never assigned: the read
\* of the unassigned local raises UnboundLocalError, after trn_losses was
\* appended to, and train() is left by the exception.
SaveMetricsUnbound ==
    /\ pc = "metrics"
    /\ validation_loss = Unbound
    /\ trn_losses' = Append(trn_losses, train_loss)
    /\ pc' = "error"
    /\ UNCHANGED <<notTrain, start_epoch, epochs, evalmode, nbatches, nxt, epoch, batch,
                   view, train_loss, validation_loss, val_losses, stop, saved,
                   schedCalls, executed, trained, phases, nsteps, nswaps>>

\* stop = scheduler.step(validation_loss): the scheduler decides.
SchedulerStep ==
    /\ pc = "sched"
    /\ \E s \in BOOLEAN : stop' = s
    /\ schedCalls' = Append(schedCalls, [epoch |-> epoch, batches |-> batch,
                                         loss |-> validation_loss])
    /\ phases' = Append(phases, "SCHEDULE")
    /\ pc' = Following("sched")
    /\ UNCHANGED <<notTrain, start_epoch, epochs, evalmode, nbatches, nxt, epoch, batch,
                   view, train_loss, validation_loss, trn_losses, val_losses,
                   saved, executed, trained, nsteps, nswaps>>

\* aux_torch.save_torch_model(...) to '{modeldir}/{save_name}_{epoch}.pth'
SaveCheckpoint ==
    /\ pc = "save"
    /\ saved' = Append(saved, Checkpoint(epoch))
    /\ phases' = Append(phases, "CHECKPOINT")
    /\ pc' = Following("save")
    /\ UNCHANGED <<notTrain, start_epoch, epochs, evalmode, nbatches, nxt, epoch, batch,
                   view, train_loss, validation_loss, trn_losses, val_losses,
                   stop, schedCalls, executed, trained, nsteps, nswaps>>

\* if stop: break
StopCheck ==
    /\ pc = "stopcheck"
    /\ pc' = AfterStopCheck(stop)
    /\ UNCHANGED <<notTrain, start_epoch, epochs, evalmode, nbatches, nxt, epoch, batch,
                   view, train_loss, validation_loss, trn_losses, val_losses,
                   stop, saved, schedCalls, executed, trained, phases, nsteps,
                   nswaps>>

NextTrain ==
    \/ ForNext
    \/ ForExhausted
    \/ TrainBatch
    \/ TrainMean
    \/ SwapAfterTrain
    \/ ValCheck
    \/ Validate
    \/ SwapAfterValidate
    \/ SaveMetrics
    \/ SaveMetricsUnbound
    \/ SchedulerStep
    \/ SaveCheckpoint
    \/ StopCheck

\* ------------------------------------------------------- train(): properties

\* C1: at the start of every epoch's TRAIN phase, before its first
\* optimizer.step(), the live parameter view is RAW.
C1_TrainStartsRaw ==
    (pc = "batch" /\ batch = 0) => view = "RAW"

\* C2: whenever the VALIDATE phase computes the validation loss, the live
\* parameter view is AVERAGED.
C2_ValidateUnderAveraged ==
    pc = "validate" => view = "AVERAGED"

\* C3: every checkpoint is written while the AVERAGED view is live.
C3_CheckpointUnderAveraged ==
    \A i \in DOMAIN saved : saved[i].view = "AVERAGED"

\* C4: when train() has ended, every epoch whose TRAIN phase completed has
\* exactly one checkpoint, keyed with its index.
C4_OneCheckpointPerTrainedEpoch ==
    pc \in {"done", "error"}
        => \A i \in DOMAIN trained :
              Cardinality({j \in DOMAIN saved : saved[j].epoch = trained[i]}) = 1

\* C5 as stated: in every epoch the checkpoint is persisted before
\* scheduler.step is called, so the checkpoint of the i-th executed epoch has
\* seen i - 1 scheduler steps.
C5_CheckpointBeforeSchedule ==
    /\ pc = "stopcheck" => phases \in {<<"TRAIN", "VALIDATE", "CHECKPOINT", "SCHEDULE">>,
                                       <<"TRAIN", "CHECKPOINT", "SCHEDULE">>}
    /\ \A i \in DOMAIN saved : saved[i].nsched = i - 1

\* C5: in every epoch the phases occur in the order TRAIN, VALIDATE
\* (optional), SCHEDULE, CHECKPOINT: scheduler.step is called before the
\* checkpoint is persisted, so the checkpoint of the i-th executed epoch has
\* already seen i scheduler steps, that epoch's included.
C5_ScheduleBeforeCheckpoint ==
    /\ pc = "stopcheck" => phases \in {<<"TRAIN", "VALIDATE", "SCHEDULE", "CHECKPOINT">>,
                                       <<"TRAIN", "SCHEDULE", "CHECKPOINT">>}
    /\ \A i \in DOMAIN saved : saved[i].nsched = i

C5_Witness ==
    /\ pc = "stopcheck"
    /\ phases = <<"TRAIN", "VALIDATE", "SCHEDULE", "CHECKPOINT">>
    /\ Len(saved) >= 2
    /\ saved[Len(saved)].epoch = epoch

\* C6: whenever an epoch appends to val_losses, a validation loss has been
\* computed in this run.
C6_ValidationLossDefined ==
    pc = "metrics" => validation_loss # Unbound

C7_Bookkeeping ==
    /\ Len(executed) <= epochs
    /\ \A i \in DOMAIN executed : executed[i] = start_epoch + i - 1
    /\ Len(schedCalls) <= Len(executed)
    /\ \A i \in DOMAIN schedCalls :
          schedCalls[i].epoch = executed[i] /\ schedCalls[i].batches = nbatches
    /\ pc = "done" => /\ stop \/ Len(executed) = epochs
                      /\ Len(schedCalls) = Len(executed)
    /\ pc = "error" => /\ Len(executed) = 1
                       /\ ~DoValidate(start_epoch, evalmode)
                       /\ schedCalls = <<>>

\* After stop = true the only step that changes anything but the position is
\* the write of the stopping epoch's checkpoint.
C7_OnlyCheckpointAfterStop ==
    stop => /\ nsteps' = nsteps /\ nswaps' = nswaps /\ batch' = batch
            /\ schedCalls' = schedCalls /\ executed' = executed
            /\ \/ saved' = saved
               \/ /\ Len(saved) = Len(schedCalls) - 1
                  /\ Len(saved') = Len(saved) + 1
                  /\ saved'[Len(saved')].epoch = schedCalls[Len(schedCalls)].epoch

Fin(n, d) == [k |-> "fin", n |-> n, d |-> d]

Inf == [k |-> "inf", n |-> 0, d |-> 1]

NaN == [k |-> "nan", n |-> 0, d |-> 1]

Zero == Fin(0, 1)

RECURSIVE Pow2(_)
Pow2(e) == IF e = 0 THEN 1 ELSE 2 * Pow2(e - 1)

\* The values compute_log_p_x can give for a row: a finite log-density
\* (base 2, relative to the smallest positive density) or nan.
LogValues ==
    {[k |-> "fin", n |-> l] : l \in (0 - MaxUnder)..MaxLog} \cup {[k |-> "nan", n |-> 0]}

\* torch.exp of a log-density: underflows to 0 below the smallest positive
\* value, overflows to inf above the largest finite one.
Exp(l) ==
    IF l.k = "nan" THEN NaN
    ELSE IF l.n < 0 THEN Fin(0, Resolution)
    ELSE IF Pow2(l.n) > MaxFloat THEN Inf
    ELSE Fin(Pow2(l.n), Resolution)

\* get_pdf(model, x): exp(compute_log_p_x(model, x)), row by row.
get_pdf(m) == [i \in 1..nrows |-> Exp(logp[m][i])]

\* a + b of two densities
Add(a, b) ==
    IF a.k = "nan" \/ b.k = "nan" THEN NaN
    ELSE IF a.k = "inf" \/ b.k = "inf" THEN Inf
    ELSE IF a.n + b.n > MaxFloat THEN Inf
    ELSE Fin(a.n + b.n, Resolution)

\* np.clip(a, e, None): the larger of a and e; nan stays nan.
Clip(a, e) ==
    IF a.k # "fin" THEN a
    ELSE IF a.n < e THEN Fin(e, Resolution) ELSE a

\* a / b of a density a by a clipped density b (b >= 0)
Div(a, b) ==
    IF a.k = "nan" \/ b.k = "nan" THEN NaN
    ELSE IF a.k = "inf" THEN (IF b.k = "inf" THEN NaN ELSE Inf)
    ELSE IF b.k = "inf" THEN Zero
    ELSE IF b.n = 0 THEN (IF a.n = 0 THEN NaN ELSE Inf)
    ELSE IF a.n * Resolution > MaxFloat * b.n THEN Inf
    ELSE Fin(a.n, b.n)

\* np.isfinite
IsFinite(x) == x.k = "fin"

\* A slip that takes the ratio branch whatever return_prob is.
RatioAlwaysRaw(s, b, rp, e) == Div(s, Clip(b, e))

\* The two branches of  if return_prob: ... else: ...
Ratio(s, b, rp, e) ==
    IF rp THEN Div(s, Clip(Add(s, b), e)) ELSE Div(s, Clip(b, e))

\* A slip that masks nan alone (np.isnan in place of ~np.isfinite).
MaskOnlyNaN(o) == [i \in DOMAIN o |-> IF o[i].k = "nan" THEN Zero ELSE o[i]]

\* out[~np.isfinite(out)] = 0
MaskNonFinite(o) == [i \in DOMAIN o |-> IF IsFinite(o[i]) THEN o[i] ELSE Zero]

InitPredict ==
    /\ nrows \in 1..MaxRows
    /\ logp \in [1..2 -> [1..nrows -> LogValues]]
    /\ return_prob \in BOOLEAN
    /\ eps \in {0, EPS}
    /\ pcP = "call"
    /\ bgk_pdf = <<>>
    /\ sgn_pdf = <<>>
    /\ ratio = <<>>
    /\ out = <<>>
    /\ IdleTrain
    /\ IdleCreate

\* bgk_pdf = get_pdf(models[0], X); sgn_pdf = get_pdf(models[1], X)
GetPdfs ==
    /\ pcP = "call"
    /\ bgk_pdf' = get_pdf(1)
    /\ sgn_pdf' = get_pdf(2)
    /\ pcP' = "pdfs"
    /\ UNCHANGED <<notPredict, logp, nrows, return_prob, eps, ratio, out>>

\* out = sgn_pdf / np.clip(..., EPS, None), elementwise
ComputeRatio ==
    /\ pcP = "pdfs"
    /\ out' = [i \in 1..nrows |-> Ratio(sgn_pdf[i], bgk_pdf[i], return_prob, eps)]
    /\ ratio' = out'
    /\ pcP' = "ratio"
    /\ UNCHANGED <<notPredict, logp, nrows, return_prob, eps, bgk_pdf, sgn_pdf>>

\* out[~np.isfinite(out)] = 0; return out
MaskAndReturn ==
    /\ pcP = "ratio"
    /\ out' = MaskNonFinite(out)
    /\ pcP' = "returned"
    /\ UNCHANGED <<notPredict, logp, nrows, return_prob, eps, bgk_pdf, sgn_pdf, ratio>>

NextPredict ==
    \/ GetPdfs
    \/ ComputeRatio
    \/ MaskAndReturn

\* ------------------------------------------------------ predict(): properties

\* x is the finite value n/d
SameValue(x, n, d) == x.k = "fin" /\ x.n * d = n * x.d

IsHalf(x) == SameValue(x, 1, 2)

IsZero(x) == x.k = "fin" /\ x.n = 0

\* models[0] and models[1] give the same finite pdf value at every row
IdenticalModels ==
    \A i \in 1..nrows : bgk_pdf[i] = sgn_pdf[i] /\ IsFinite(sgn_pdf[i])

\* C8 as stated: with return_prob and the default EPS, two identical models
\* with finite pdf values give exactly 0.5 at every row, however small the
\* pdf value.
C8_IdenticalModelsGiveHalf ==
    (pcP = "returned" /\ return_prob /\ eps = EPS /\ IdenticalModels)
        => \A i \in 1..nrows : IsHalf(out[i])

\* C8: with return_prob and the default EPS, two identical models with
\* finite pdf value p at a row give exactly 0.5 there when EPS <= 2p and 2p
\* is finite; they give p/EPS (below 0.5, and 0 for p = 0) when 2p < EPS, and
\* 0 when 2p overflows.
C8_HalfAboveEps ==
    (pcP = "returned" /\ return_prob /\ eps = EPS /\ IdenticalModels)
        => \A i \in 1..nrows :
              LET p == sgn_pdf[i].n
              IN  IF 2 * p > MaxFloat THEN IsZero(out[i])
                  ELSE IF 2 * p >= EPS THEN IsHalf(out[i])
                  ELSE SameValue(out[i], p, EPS) /\ ~IsHalf(out[i])

C8_Witness ==
    /\ pcP = "returned" /\ return_prob /\ eps = EPS /\ IdenticalModels
    /\ \E i \in 1..nrows : IsHalf(out[i])
    /\ \E i \in 1..nrows : sgn_pdf[i].n > 0 /\ 2 * sgn_pdf[i].n < EPS
                           /\ ~IsHalf(out[i]) /\ ~IsZero(out[i])

\* C9 as stated: predict returns no non-finite value, every row whose ratio
\* is nan or inf is returned as 0.0 and every other row unchanged, and with
\* return_prob = False a row with pdf_B = 0 is returned as 0.0.
C9_ZeroBackgroundGivesZero ==
    pcP = "returned"
        => \A i \in 1..nrows :
              /\ IsFinite(out[i])
              /\ out[i] = (IF IsFinite(ratio[i]) THEN ratio[i] ELSE Zero)
              /\ (~return_prob /\ IsZero(bgk_pdf[i])) => IsZero(out[i])

\* C9: predict returns no non-finite value, every row whose ratio is nan or
\* inf is returned as 0.0 and every other row unchanged; with return_prob =
\* False a row with pdf_B = 0 is returned as pdf_S / EPS when that quotient
\* is finite, and as 0.0 when it is not (pdf_S is not finite, the quotient
\* overflows, or EPS = 0).
C9_NonFiniteMasked ==
    pcP = "returned"
        => \A i \in 1..nrows :
              /\ IsFinite(out[i])
              /\ out[i] = (IF IsFinite(ratio[i]) THEN ratio[i] ELSE Zero)
              /\ (~return_prob /\ IsZero(bgk_pdf[i])) =>
                    IF /\ IsFinite(sgn_pdf[i])
                       /\ eps > 0
                       /\ sgn_pdf[i].n * Resolution <= MaxFloat * eps
                    THEN SameValue(out[i], sgn_pdf[i].n, eps)
                    ELSE out[i] = Zero

C9_Witness ==
    /\ pcP = "returned" /\ ~return_prob /\ eps = EPS
    /\ \E i \in 1..nrows : IsZero(bgk_pdf[i]) /\ IsFinite(sgn_pdf[i])
                           /\ IsFinite(ratio[i]) /\ ~IsZero(out[i])
    /\ \E i \in 1..nrows : ~IsFinite(ratio[i]) /\ out[i] = Zero

\* ========================================================= create_model()

\* MaskedWeight(in_features, out_features, dim)
MaskedWeight(i, o, dm) == [type |-> "MaskedWeight", in |-> i, out |-> o, dim |-> dm]

\* Tanh()
Tanh == [type |-> "Tanh", in |-> 0, out |-> 0, dim |-> 0]

\* BNAF(*layers, res=res)
BNAF(ls, r) == [type |-> "BNAF", layers |-> ls, res |-> r, in_features |-> 0, p |-> "None"]

\* Permutation(in_features, p)
Permutation(n, q) == [type |-> "Permutation", layers |-> <<>>, res |-> "None", in_features |-> n, p |-> q]

\* The list the inner loop builds: param['layers'] times a hidden
\* MaskedWeight followed by a Tanh.
HiddenLayers(pm) ==
    [j \in 1..(2 * pm.layers) |->
        IF j % 2 = 1
        THEN MaskedWeight(pm.n_dims * pm.hidden_dim, pm.n_dims * pm.hidden_dim, pm.n_dims)
        ELSE Tanh]

\* res = param['residual'] if f < param['flows'] - 1 else None
BlockResidual(pm, fi) == IF fi < pm.flows - 1 THEN pm.residual ELSE "None"

\* The flow block of iteration fi.
FlowBlock(pm, fi) ==
    BNAF(<<MaskedWeight(pm.n_dims, pm.n_dims * pm.hidden_dim, pm.n_dims), Tanh>>
            \o HiddenLayers(pm)
            \o <<MaskedWeight(pm.n_dims * pm.hidden_dim, pm.n_dims, pm.n_dims)>>,
         BlockResidual(pm, fi))

\* An off-by-one that appends a permutation after the last block too.
NeedsPermutationAlways(pm, fi) == fi < pm.flows

\* if f < param['flows'] - 1
NeedsPermutation(pm, fi) == fi < pm.flows - 1

Params ==
    [n_dims : 1..MaxDims, hidden_dim : 1..MaxHidden, layers : 0..MaxLayers,
     flows : 0..MaxFlows, residual : {"None", "normal", "gated"},
     perm : {"flip", "random"}]

InitCreate ==
    /\ param \in Params
    /\ pcC = "loop"
    /\ f = 0
    /\ flows = <<>>
    /\ model = <<>>
    /\ IdleTrain
    /\ IdlePredict

\* One iteration of  for f in range(param['flows'])
FlowIteration ==
    /\ pcC = "loop"
    /\ f < param.flows
    /\ flows' = flows \o <<FlowBlock(param, f)>>
                      \o (IF NeedsPermutation(param, f)
                          THEN <<Permutation(param.n_dims, param.perm)>>
                          ELSE <<>>)
    /\ f' = f + 1
    /\ UNCHANGED <<notCreate, pcC, param, model>>

\* model = Sequential(*flows); return model
MakeSequential ==
    /\ pcC = "loop"
    /\ f = param.flows
    /\ model' = flows
    /\ pcC' = "returned"
    /\ UNCHANGED <<notCreate, param, f, flows>>

NextCreate ==
    \/ FlowIteration
    \/ MakeSequential

\* ------------------------------------------------- create_model(): properties

\* The layers of a block: input MaskedWeight, Tanh, param['layers'] pairs
\* of hidden MaskedWeight and Tanh, output MaskedWeight.
BlockShape(b, pm) ==
    LET n == pm.n_dims
        h == pm.n_dims * pm.hidden_dim
        ls == b.layers
    IN  /\ Len(ls) = 2 * pm.layers + 3
        /\ ls[1].type = "MaskedWeight" /\ ls[1].in = n /\ ls[1].out = h
        /\ ls[2].type = "Tanh"
        /\ \A j \in 1..pm.layers :
              /\ ls[2 * j + 1].type = "MaskedWeight"
              /\ ls[2 * j + 1].in = h /\ ls[2 * j + 1].out = h
              /\ ls[2 * j + 2].type = "Tanh"
        /\ ls[Len(ls)].type = "MaskedWeight"
        /\ ls[Len(ls)].in = h /\ ls[Len(ls)].out = n

\* C10: for flows >= 1 the model create_model returns has 2*flows - 1
\* elements, BNAF blocks at the odd places and Permutations at the even ones
\* (so it ends with a block); every block but the last has res =
\* param['residual'] and the last has res = None; every block has the layers
\* of BlockShape, so every element maps n_dims values to n_dims values.
C10_ModelShape ==
    (pcC = "returned" /\ param.flows >= 1)
        => /\ Len(model) = 2 * param.flows - 1
           /\ \A i \in 1..Len(model) :
                 IF i % 2 = 1
                 THEN /\ model[i].type = "BNAF"
                      /\ BlockShape(model[i], param)
                      /\ model[i].res = (IF i < Len(model) THEN param.residual ELSE "None")
                 ELSE /\ model[i].type = "Permutation"
                      /\ model[i].in_features = param.n_dims

C10_Witness ==
    /\ pcC = "returned"
    /\ param.flows >= 2 /\ param.layers >= 1 /\ param.residual # "None"
    /\ Len(model) = 2 * param.flows - 1
    /\ model[Len(model)].type = "BNAF"

\* ========================================================= specifications

SpecTrain == InitTrain /\ [][NextTrain]_vars

\* train() runs in one thread of control and every loader is finite, so a
\* step that is possible is eventually taken.
SpecTrainFair == SpecTrain /\ WF_vars(NextTrain)

SpecCreate == InitCreate /\ [][NextCreate]_vars

SpecPredict == InitPredict /\ [][NextPredict]_vars

====
